---------------------------- MODULE Spec2Model ----------------------------
(***************************************************************************)
(* insert_setup.py: read web/index.html, splice the setup-wizard block     *)
(* before the first occurrence of the login-modal marker, write the file   *)
(* back and print a message.                                               *)
(*                                                                         *)
(* A file is a sequence of one-character strings.  The file is opened in   *)
(* text mode, so the read translates "\r\n" and "\r" to "\n" (universal    *)
(* newlines) and the write translates "\n" to os.linesep.  The script      *)
(* carries a POSIX shebang line; os.linesep is modelled as "\n".           *)
(***************************************************************************)
EXTENDS Integers, Sequences, FiniteSets

LF == "\n"

CR == "\r"

(* Bounds of the model: the file contents are the concatenations of at     *)
(* most MaxPieces pieces, and the script is invoked at most MaxRuns times. *)
MaxPieces == 3

MaxRuns == 2

(* marker = '    <!-- Login Modal (standard) -->', one element per character *)
marker ==
  <<
    " ", " ", " ", " ", "<", "!", "-", "-", " ", "L", "o", "g",
    "i", "n", " ", "M", "o", "d", "a", "l", " ", "(", "s", "t",
    "a", "n", "d", "a", "r", "d", ")", " ", "-", "-", ">"
  >>

(* setup_html, the triple-quoted block of lines 7-46, one element per
   character; every line of the literal ends with "\n" *)
setup_html ==
  <<
    " ", " ", " ", " ", "<", "!", "-", "-", " ", "S", "e", "t", "u", "p", " ", "W",
    "i", "z", "a", "r", "d", " ", "(", "f", "i", "r", "s", "t", " ", "r", "u", "n",
    ")", " ", "-", "-", ">", "\n", " ", " ", " ", " ", "<", "d", "i", "v", " ", "c",
    "l", "a", "s", "s", "=", "\"", "s", "e", "t", "u", "p", "-", "o", "v", "e", "r",
    "l", "a", "y", "\"", " ", "i", "d", "=", "\"", "s", "e", "t", "u", "p", "O", "v",
    "e", "r", "l", "a", "y", "\"", ">", "\n", " ", " ", " ", " ", " ", " ", " ", " ",
    "<", "d", "i", "v", " ", "c", "l", "a", "s", "s", "=", "\"", "s", "e", "t", "u",
    "p", "-", "c", "a", "r", "d", "\"", ">", "\n", " ", " ", " ", " ", " ", " ", " ",
    " ", " ", " ", " ", " ", "<", "d", "i", "v", " ", "c", "l", "a", "s", "s", "=",
    "\"", "s", "e", "t", "u", "p", "-", "l", "o", "g", "o", "\"", ">", "C", "i", "n",
    "e", "V", "a", "u", "l", "t", " ", "S", "e", "t", "u", "p", "<", "/", "d", "i",
    "v", ">", "\n", " ", " ", " ", " ", " ", " ", " ", " ", " ", " ", " ", " ", "<",
    "d", "i", "v", " ", "c", "l", "a", "s", "s", "=", "\"", "s", "e", "t", "u", "p",
    "-", "s", "u", "b", "t", "i", "t", "l", "e", "\"", ">", "C", "r", "e", "a", "t",
    "e", " ", "y", "o", "u", "r", " ", "a", "d", "m", "i", "n", " ", "a", "c", "c",
    "o", "u", "n", "t", " ", "t", "o", " ", "g", "e", "t", " ", "s", "t", "a", "r",
    "t", "e", "d", "<", "/", "d", "i", "v", ">", "\n", " ", " ", " ", " ", " ", " ",
    " ", " ", " ", " ", " ", " ", "<", "d", "i", "v", " ", "i", "d", "=", "\"", "s",
    "e", "t", "u", "p", "M", "e", "s", "s", "a", "g", "e", "\"", ">", "<", "/", "d",
    "i", "v", ">", "\n", " ", " ", " ", " ", " ", " ", " ", " ", " ", " ", " ", " ",
    "<", "f", "o", "r", "m", " ", "i", "d", "=", "\"", "s", "e", "t", "u", "p", "F",
    "o", "r", "m", "\"", ">", "\n", " ", " ", " ", " ", " ", " ", " ", " ", " ", " ",
    " ", " ", " ", " ", " ", " ", "<", "d", "i", "v", " ", "c", "l", "a", "s", "s",
    "=", "\"", "f", "o", "r", "m", "-", "g", "r", "o", "u", "p", "\"", ">", "\n", " ",
    " ", " ", " ", " ", " ", " ", " ", " ", " ", " ", " ", " ", " ", " ", " ", " ",
    " ", " ", " ", "<", "l", "a", "b", "e", "l", ">", "U", "s", "e", "r", "n", "a",
    "m", "e", "<", "/", "l", "a", "b", "e", "l", ">", "\n", " ", " ", " ", " ", " ",
    " ", " ", " ", " ", " ", " ", " ", " ", " ", " ", " ", " ", " ", " ", " ", "<",
    "i", "n", "p", "u", "t", " ", "t", "y", "p", "e", "=", "\"", "t", "e", "x", "t",
    "\"", " ", "i", "d", "=", "\"", "s", "e", "t", "u", "p", "U", "s", "e", "r", "n",
    "a", "m", "e", "\"", " ", "r", "e", "q", "u", "i", "r", "e", "d", " ", "a", "u",
    "t", "o", "c", "o", "m", "p", "l", "e", "t", "e", "=", "\"", "u", "s", "e", "r",
    "n", "a", "m", "e", "\"", ">", "\n", " ", " ", " ", " ", " ", " ", " ", " ", " ",
    " ", " ", " ", " ", " ", " ", " ", "<", "/", "d", "i", "v", ">", "\n", " ", " ",
    " ", " ", " ", " ", " ", " ", " ", " ", " ", " ", " ", " ", " ", " ", "<", "d",
    "i", "v", " ", "c", "l", "a", "s", "s", "=", "\"", "s", "e", "t", "u", "p", "-",
    "r", "o", "w", "\"", ">", "\n", " ", " ", " ", " ", " ", " ", " ", " ", " ", " ",
    " ", " ", " ", " ", " ", " ", " ", " ", " ", " ", "<", "d", "i", "v", " ", "c",
    "l", "a", "s", "s", "=", "\"", "f", "o", "r", "m", "-", "g", "r", "o", "u", "p",
    "\"", ">", "\n", " ", " ", " ", " ", " ", " ", " ", " ", " ", " ", " ", " ", " ",
    " ", " ", " ", " ", " ", " ", " ", " ", " ", " ", " ", "<", "l", "a", "b", "e",
    "l", ">", "F", "i", "r", "s", "t", " ", "N", "a", "m", "e", "<", "/", "l", "a",
    "b", "e", "l", ">", "\n", " ", " ", " ", " ", " ", " ", " ", " ", " ", " ", " ",
    " ", " ", " ", " ", " ", " ", " ", " ", " ", " ", " ", " ", " ", "<", "i", "n",
    "p", "u", "t", " ", "t", "y", "p", "e", "=", "\"", "t", "e", "x", "t", "\"", " ",
    "i", "d", "=", "\"", "s", "e", "t", "u", "p", "F", "i", "r", "s", "t", "N", "a",
    "m", "e", "\"", " ", "r", "e", "q", "u", "i", "r", "e", "d", ">", "\n", " ", " ",
    " ", " ", " ", " ", " ", " ", " ", " ", " ", " ", " ", " ", " ", " ", " ", " ",
    " ", " ", "<", "/", "d", "i", "v", ">", "\n", " ", " ", " ", " ", " ", " ", " ",
    " ", " ", " ", " ", " ", " ", " ", " ", " ", " ", " ", " ", " ", "<", "d", "i",
    "v", " ", "c", "l", "a", "s", "s", "=", "\"", "f", "o", "r", "m", "-", "g", "r",
    "o", "u", "p", "\"", ">", "\n", " ", " ", " ", " ", " ", " ", " ", " ", " ", " ",
    " ", " ", " ", " ", " ", " ", " ", " ", " ", " ", " ", " ", " ", " ", "<", "l",
    "a", "b", "e", "l", ">", "L", "a", "s", "t", " ", "N", "a", "m", "e", "<", "/",
    "l", "a", "b", "e", "l", ">", "\n", " ", " ", " ", " ", " ", " ", " ", " ", " ",
    " ", " ", " ", " ", " ", " ", " ", " ", " ", " ", " ", " ", " ", " ", " ", "<",
    "i", "n", "p", "u", "t", " ", "t", "y", "p", "e", "=", "\"", "t", "e", "x", "t",
    "\"", " ", "i", "d", "=", "\"", "s", "e", "t", "u", "p", "L", "a", "s", "t", "N",
    "a", "m", "e", "\"", " ", "r", "e", "q", "u", "i", "r", "e", "d", ">", "\n", " ",
    " ", " ", " ", " ", " ", " ", " ", " ", " ", " ", " ", " ", " ", " ", " ", " ",
    " ", " ", " ", "<", "/", "d", "i", "v", ">", "\n", " ", " ", " ", " ", " ", " ",
    " ", " ", " ", " ", " ", " ", " ", " ", " ", " ", "<", "/", "d", "i", "v", ">",
    "\n", " ", " ", " ", " ", " ", " ", " ", " ", " ", " ", " ", " ", " ", " ", " ",
    " ", "<", "d", "i", "v", " ", "c", "l", "a", "s", "s", "=", "\"", "f", "o", "r",
    "m", "-", "g", "r", "o", "u", "p", "\"", ">", "\n", " ", " ", " ", " ", " ", " ",
    " ", " ", " ", " ", " ", " ", " ", " ", " ", " ", " ", " ", " ", " ", "<", "l",
    "a", "b", "e", "l", ">", "E", "m", "a", "i", "l", "<", "/", "l", "a", "b", "e",
    "l", ">", "\n", " ", " ", " ", " ", " ", " ", " ", " ", " ", " ", " ", " ", " ",
    " ", " ", " ", " ", " ", " ", " ", "<", "i", "n", "p", "u", "t", " ", "t", "y",
    "p", "e", "=", "\"", "e", "m", "a", "i", "l", "\"", " ", "i", "d", "=", "\"", "s",
    "e", "t", "u", "p", "E", "m", "a", "i", "l", "\"", " ", "r", "e", "q", "u", "i",
    "r", "e", "d", " ", "a", "u", "t", "o", "c", "o", "m", "p", "l", "e", "t", "e",
    "=", "\"", "e", "m", "a", "i", "l", "\"", ">", "\n", " ", " ", " ", " ", " ", " ",
    " ", " ", " ", " ", " ", " ", " ", " ", " ", " ", "<", "/", "d", "i", "v", ">",
    "\n", " ", " ", " ", " ", " ", " ", " ", " ", " ", " ", " ", " ", " ", " ", " ",
    " ", "<", "d", "i", "v", " ", "c", "l", "a", "s", "s", "=", "\"", "f", "o", "r",
    "m", "-", "g", "r", "o", "u", "p", "\"", ">", "\n", " ", " ", " ", " ", " ", " ",
    " ", " ", " ", " ", " ", " ", " ", " ", " ", " ", " ", " ", " ", " ", "<", "l",
    "a", "b", "e", "l", ">", "P", "a", "s", "s", "w", "o", "r", "d", "<", "/", "l",
    "a", "b", "e", "l", ">", "\n", " ", " ", " ", " ", " ", " ", " ", " ", " ", " ",
    " ", " ", " ", " ", " ", " ", " ", " ", " ", " ", "<", "i", "n", "p", "u", "t",
    " ", "t", "y", "p", "e", "=", "\"", "p", "a", "s", "s", "w", "o", "r", "d", "\"",
    " ", "i", "d", "=", "\"", "s", "e", "t", "u", "p", "P", "a", "s", "s", "w", "o",
    "r", "d", "\"", " ", "r", "e", "q", "u", "i", "r", "e", "d", " ", "a", "u", "t",
    "o", "c", "o", "m", "p", "l", "e", "t", "e", "=", "\"", "n", "e", "w", "-", "p",
    "a", "s", "s", "w", "o", "r", "d", "\"", ">", "\n", " ", " ", " ", " ", " ", " ",
    " ", " ", " ", " ", " ", " ", " ", " ", " ", " ", "<", "/", "d", "i", "v", ">",
    "\n", " ", " ", " ", " ", " ", " ", " ", " ", " ", " ", " ", " ", " ", " ", " ",
    " ", "<", "d", "i", "v", " ", "c", "l", "a", "s", "s", "=", "\"", "f", "o", "r",
    "m", "-", "g", "r", "o", "u", "p", "\"", ">", "\n", " ", " ", " ", " ", " ", " ",
    " ", " ", " ", " ", " ", " ", " ", " ", " ", " ", " ", " ", " ", " ", "<", "l",
    "a", "b", "e", "l", ">", "P", "I", "N", " ", "(", "f", "o", "r", " ", "f", "a",
    "s", "t", " ", "l", "o", "g", "i", "n", ")", "<", "/", "l", "a", "b", "e", "l",
    ">", "\n", " ", " ", " ", " ", " ", " ", " ", " ", " ", " ", " ", " ", " ", " ",
    " ", " ", " ", " ", " ", " ", "<", "i", "n", "p", "u", "t", " ", "t", "y", "p",
    "e", "=", "\"", "t", "e", "x", "t", "\"", " ", "i", "d", "=", "\"", "s", "e", "t",
    "u", "p", "P", "i", "n", "\"", " ", "i", "n", "p", "u", "t", "m", "o", "d", "e",
    "=", "\"", "n", "u", "m", "e", "r", "i", "c", "\"", " ", "m", "a", "x", "l", "e",
    "n", "g", "t", "h", "=", "\"", "1", "0", "\"", " ", "a", "u", "t", "o", "c", "o",
    "m", "p", "l", "e", "t", "e", "=", "\"", "o", "f", "f", "\"", " ", "p", "l", "a",
    "c", "e", "h", "o", "l", "d", "e", "r", "=", "\"", "4", "-", "d", "i", "g", "i",
    "t", " ", "P", "I", "N", "\"", ">", "\n", " ", " ", " ", " ", " ", " ", " ", " ",
    " ", " ", " ", " ", " ", " ", " ", " ", " ", " ", " ", " ", "<", "d", "i", "v",
    " ", "c", "l", "a", "s", "s", "=", "\"", "s", "e", "t", "u", "p", "-", "p", "i",
    "n", "-", "n", "o", "t", "e", "\"", ">", "N", "u", "m", "e", "r", "i", "c", " ",
    "o", "n", "l", "y", ".", " ", "U", "s", "e", "d", " ", "f", "o", "r", " ", "q",
    "u", "i", "c", "k", " ", "s", "i", "g", "n", "-", "i", "n", " ", "o", "n", " ",
    "s", "h", "a", "r", "e", "d", " ", "d", "e", "v", "i", "c", "e", "s", ".", "<",
    "/", "d", "i", "v", ">", "\n", " ", " ", " ", " ", " ", " ", " ", " ", " ", " ",
    " ", " ", " ", " ", " ", " ", "<", "/", "d", "i", "v", ">", "\n", " ", " ", " ",
    " ", " ", " ", " ", " ", " ", " ", " ", " ", " ", " ", " ", " ", "<", "b", "u",
    "t", "t", "o", "n", " ", "t", "y", "p", "e", "=", "\"", "s", "u", "b", "m", "i",
    "t", "\"", " ", "c", "l", "a", "s", "s", "=", "\"", "b", "t", "n", "-", "p", "r",
    "i", "m", "a", "r", "y", "\"", " ", "s", "t", "y", "l", "e", "=", "\"", "w", "i",
    "d", "t", "h", ":", "1", "0", "0", "%", ";", "m", "a", "r", "g", "i", "n", "-",
    "t", "o", "p", ":", "1", "6", "p", "x", ";", "\"", ">", "C", "r", "e", "a", "t",
    "e", " ", "A", "d", "m", "i", "n", " ", "A", "c", "c", "o", "u", "n", "t", "<",
    "/", "b", "u", "t", "t", "o", "n", ">", "\n", " ", " ", " ", " ", " ", " ", " ",
    " ", " ", " ", " ", " ", "<", "/", "f", "o", "r", "m", ">", "\n", " ", " ", " ",
    " ", " ", " ", " ", " ", "<", "/", "d", "i", "v", ">", "\n", " ", " ", " ", " ",
    "<", "/", "d", "i", "v", ">", "\n", "\n"
  >>

(* os.linesep of the platform named by the shebang line *)
linesep == <<LF>>

(* the message of the final print *)
SuccessMessage == "Setup wizard HTML inserted successfully"

(* the statements of the script in program order *)
StepOrder == <<"read", "replace", "open_w", "write", "close", "print">>

(***************************************************************************)
(* String operations                                                       *)
(***************************************************************************)
Min(S) == CHOOSE i \in S : \A j \in S : i <= j

(* the 1-based positions at which sub occurs in s *)
Occurrences(s, sub) ==
  {i \in 1..(Len(s) - Len(sub) + 1) : SubSeq(s, i, i + Len(sub) - 1) = sub}

(* str.find: the lowest position of sub in s, 0 when there is none *)
find(s, sub) ==
  IF Occurrences(s, sub) = {} THEN 0 ELSE Min(Occurrences(s, sub))

(* str.replace(old, new, 1): the leftmost occurrence of old becomes new *)
replace(s, old, new) ==
  LET p == find(s, old)
  IN  IF p = 0 THEN s
      ELSE SubSeq(s, 1, p - 1) \o new \o SubSeq(s, p + Len(old), Len(s))

(* text-mode read, newline=None: "\r\n" and a lone "\r" become "\n" *)
TranslateRead(bytes) ==
  LET t == [i \in 1..Len(bytes) |->
              IF bytes[i] = LF /\ i > 1 /\ bytes[i - 1] = CR THEN ""
              ELSE IF bytes[i] = CR THEN LF
              ELSE bytes[i]]
  IN  SelectSeq(t, LAMBDA c : c # "")

(* text-mode write, newline=None: every "\n" becomes os.linesep *)
RECURSIVE TranslateWrite(_)
TranslateWrite(text) ==
  IF Len(text) = 0 THEN <<>>
  ELSE IF Len(text) = 1 THEN (IF text[1] = LF THEN linesep ELSE text)
  ELSE LET h == Len(text) \div 2
       IN  TranslateWrite(SubSeq(text, 1, h))
             \o TranslateWrite(SubSeq(text, h + 1, Len(text)))

(***************************************************************************)
(* The files the script is run on                                          *)
(***************************************************************************)
Pieces ==
  { marker, SubSeq(marker, 1, Len(marker) - 1), <<"x">>, <<CR>>, <<LF>> }

RECURSIVE Concats(_)
Concats(n) ==
  IF n = 0 THEN { <<>> }
  ELSE LET r == Concats(n - 1) IN r \cup { p \o c : p \in Pieces, c \in r }

Contents == Concats(MaxPieces)

(***************************************************************************)
(* State                                                                   *)
(***************************************************************************)
VARIABLES
  disk,        \* the bytes of web/index.html
  exists,      \* web/index.html exists
  readable,    \* the process may open it for reading
  writable,    \* the process may open it for writing (creating it if missing)
  pc,          \* the position of the current run
  content,     \* the variable content of the script
  buf,         \* the bytes f.write has handed to the open file, not yet flushed
  stdout,      \* what the current run printed
  stderr,      \* the exception the current run died of
  exitStatus,  \* <<>> while the process has no exit status, else <<status>>
  trace,       \* the statements the current run has executed, in order
  run,         \* the number of the current run
  C0,          \* the bytes of the file before the first run
  orig,        \* the bytes of the file when the current run started
  origExists,  \* whether the file existed when the current run started
  killedAt,    \* the position at which the current run was interrupted
  completed    \* the number of runs that ended normally

vars ==
  << disk, exists, readable, writable, pc, content, buf, stdout, stderr,
     exitStatus, trace, run, C0, orig, origExists, killedAt, completed >>

env == << readable, writable, C0, orig, origExists, run >>

Running == {"start", "read", "replaced", "wopen", "wbuffered", "written"}

Exited == {"done", "failed_read", "failed_write"}

Init ==
  /\ exists \in BOOLEAN
  /\ readable \in (IF exists THEN BOOLEAN ELSE {FALSE})
  /\ writable \in BOOLEAN
  /\ disk \in (IF exists THEN Contents ELSE { <<>> })
  /\ pc = "start"
  /\ content = <<>>
  /\ buf = <<>>
  /\ stdout = <<>>
  /\ stderr = <<>>
  /\ exitStatus = <<>>
  /\ trace = <<>>
  /\ run = 1
  /\ C0 = disk
  /\ orig = disk
  /\ origExists = exists
  /\ killedAt = "none"
  /\ completed = 0

(***************************************************************************)
(* The statements of the script                                            *)
(***************************************************************************)

(* Read as it would be with the file opened in mode 'w+': the open
   truncates the file before anything is read *)
ReadTruncating ==
  /\ pc = "start"
  /\ exists /\ readable
  /\ disk' = <<>>
  /\ content' = <<>>
  /\ trace' = Append(trace, "read")
  /\ pc' = "read"
  /\ UNCHANGED << buf, stdout, stderr, exitStatus, killedAt, completed, exists, env >>

(* lines 2-3: with open('web/index.html', 'r') as f: content = f.read() *)
Read ==
  /\ pc = "start"
  /\ exists /\ readable
  /\ content' = TranslateRead(disk)
  /\ trace' = Append(trace, "read")
  /\ pc' = "read"
  /\ UNCHANGED << disk, buf, stdout, stderr, exitStatus, killedAt, completed, exists, env >>

(* ReadFail as it would be with the exception of line 2 swallowed: the run
   goes on with an empty content *)
ReadFailSwallowed ==
  /\ pc = "start"
  /\ ~(exists /\ readable)
  /\ content' = <<>>
  /\ pc' = "read"
  /\ UNCHANGED << disk, buf, stdout, stderr, exitStatus, trace, killedAt,
                  completed, exists, env >>

(* line 2 raises: the file is missing or may not be read; the exception is
   not caught, the interpreter prints the traceback and exits with 1 *)
ReadFail ==
  /\ pc = "start"
  /\ ~(exists /\ readable)
  /\ stderr' = Append(stderr, IF exists THEN "PermissionError"
                                        ELSE "FileNotFoundError")
  /\ exitStatus' = <<1>>
  /\ pc' = "failed_read"
  /\ UNCHANGED << disk, content, buf, stdout, trace, killedAt, completed, exists, env >>

(* Replace as it would be if the statement of line 48 were executed again:
   the run stays before the replacement *)
ReplaceAgain ==
  /\ pc = "read"
  /\ content' = replace(content, marker, setup_html \o marker)
  /\ trace' = Append(trace, "replace")
  /\ pc' = IF Len(trace) < 2 THEN "read" ELSE "replaced"
  /\ UNCHANGED << disk, buf, stdout, stderr, exitStatus, killedAt, completed, exists, env >>

(* line 48: content = content.replace(marker, setup_html + marker, 1) *)
Replace ==
  /\ pc = "read"
  /\ content' = replace(content, marker, setup_html \o marker)
  /\ trace' = Append(trace, "replace")
  /\ pc' = "replaced"
  /\ UNCHANGED << disk, buf, stdout, stderr, exitStatus, killedAt, completed, exists, env >>

(* line 50: open('web/index.html', 'w') creates or truncates the file *)
OpenW ==
  /\ pc = "replaced"
  /\ writable
  /\ exists' = TRUE
  /\ disk' = <<>>
  /\ trace' = Append(trace, "open_w")
  /\ pc' = "wopen"
  /\ UNCHANGED << content, buf, stdout, stderr, exitStatus, killedAt, completed, env >>

(* OpenWFail as it would be if the failing open had already truncated the
   file *)
OpenWFailTruncating ==
  /\ pc = "replaced"
  /\ ~writable
  /\ disk' = <<>>
  /\ stderr' = Append(stderr, "PermissionError")
  /\ exitStatus' = <<1>>
  /\ pc' = "failed_write"
  /\ UNCHANGED << content, buf, stdout, trace, killedAt, completed, exists, env >>

(* line 50 raises: the file may not be opened for writing; open fails
   before it truncates anything *)
OpenWFail ==
  /\ pc = "replaced"
  /\ ~writable
  /\ stderr' = Append(stderr, "PermissionError")
  /\ exitStatus' = <<1>>
  /\ pc' = "failed_write"
  /\ UNCHANGED << disk, content, buf, stdout, trace, killedAt, completed, exists, env >>

(* line 51: f.write(content) encodes the text into the file's buffer *)
Write ==
  /\ pc = "wopen"
  /\ buf' = TranslateWrite(content)
  /\ trace' = Append(trace, "write")
  /\ pc' = "wbuffered"
  /\ UNCHANGED << disk, content, stdout, stderr, exitStatus, killedAt, completed, exists, env >>

(* end of the with block of lines 50-51: the file is flushed and closed *)
Close ==
  /\ pc = "wbuffered"
  /\ disk' = buf
  /\ trace' = Append(trace, "close")
  /\ pc' = "written"
  /\ UNCHANGED << content, buf, stdout, stderr, exitStatus, killedAt, completed, exists, env >>

(* PrintSuccess as it would be if the message were printed only when the
   replacement changed the content *)
PrintIfInserted ==
  /\ pc = "written"
  /\ stdout' = IF find(content, setup_html) # 0
                  THEN Append(stdout, SuccessMessage) ELSE stdout
  /\ exitStatus' = <<0>>
  /\ trace' = Append(trace, "print")
  /\ completed' = completed + 1
  /\ pc' = "done"
  /\ UNCHANGED << disk, content, buf, stderr, killedAt, exists, env >>

(* line 53: print(...), after which the interpreter exits with 0 *)
PrintSuccess ==
  /\ pc = "written"
  /\ stdout' = Append(stdout, SuccessMessage)
  /\ exitStatus' = <<0>>
  /\ trace' = Append(trace, "print")
  /\ completed' = completed + 1
  /\ pc' = "done"
  /\ UNCHANGED << disk, content, buf, stderr, killedAt, exists, env >>

(***************************************************************************)
(* The environment of the script                                           *)
(***************************************************************************)

(* the process is interrupted between two statements *)
Interrupt ==
  /\ pc \in Running
  /\ killedAt' = pc
  /\ pc' = "killed"
  /\ UNCHANGED << disk, content, buf, stdout, stderr, exitStatus, trace,
                  completed, exists, env >>

(* the lengths at which an interrupted flush may leave the file *)
PartialLens(b) == {n \in {1, Len(b) \div 2, Len(b) - 1} : 0 < n /\ n < Len(b)}

(* the process is interrupted while the close of line 51 flushes the buffer *)
InterruptFlush ==
  /\ pc = "wbuffered"
  /\ \E n \in PartialLens(buf) : disk' = SubSeq(buf, 1, n)
  /\ killedAt' = "flush"
  /\ pc' = "killed"
  /\ UNCHANGED << content, buf, stdout, stderr, exitStatus, trace,
                  completed, exists, env >>

(* the script is invoked again, after the previous run has exited, on the
   file that run left *)
Rerun ==
  /\ pc \in Exited
  /\ run < MaxRuns
  /\ run' = run + 1
  /\ orig' = disk
  /\ origExists' = exists
  /\ pc' = "start"
  /\ content' = <<>>
  /\ buf' = <<>>
  /\ stdout' = <<>>
  /\ stderr' = <<>>
  /\ exitStatus' = <<>>
  /\ trace' = <<>>
  /\ UNCHANGED << disk, exists, readable, writable, C0, killedAt, completed >>

Next ==
  \/ Read
  \/ ReadFail
  \/ Replace
  \/ OpenW
  \/ OpenWFail
  \/ Write
  \/ Close
  \/ PrintSuccess
  \/ Interrupt
  \/ InterruptFlush
  \/ Rerun

Spec == Init /\ [][Next]_vars

TypeOK ==
  /\ pc \in Running \cup Exited \cup {"killed"}
  /\ run \in 1..MaxRuns
  /\ completed \in 0..MaxRuns
  /\ exitStatus \in { <<>>, <<0>>, <<1>> }


(***************************************************************************)
(* Properties                                                              *)
(***************************************************************************)
IsPrefix(s, t) == Len(s) <= Len(t) /\ SubSeq(t, 1, Len(s)) = s

HasCR(s) == \E i \in 1..Len(s) : s[i] = CR

(* the part of s before its first marker, and the part after that marker *)
PrefixOf(s) == SubSeq(s, 1, find(s, marker) - 1)

SuffixOf(s) == SubSeq(s, find(s, marker) + Len(marker), Len(s))

(* the position at which the current run inserted the block, 0 if it
   inserted nothing: the first marker of the text the run read *)
InsertionPoint == find(TranslateRead(orig), marker)

(* s without the n elements that start at position p *)
RemoveAt(s, p, n) == SubSeq(s, 1, p - 1) \o SubSeq(s, p + n, Len(s))

FirstRunDone == run = 1 /\ pc = "done"

(* C1: when the file C holds the marker exactly once, one run leaves the   *)
(* file as prefix + setup_html + marker + suffix, where C = prefix +       *)
(* marker + suffix.                                                        *)
C1_SingleMarkerSplice ==
  (FirstRunDone /\ Cardinality(Occurrences(C0, marker)) = 1) =>
    disk = PrefixOf(C0) \o setup_html \o marker \o SuffixOf(C0)

(* C2: when the file C holds the marker two or more times, one run inserts *)
(* the block once, before the leftmost marker, and leaves everything from  *)
(* that marker on exactly as it was in C.                                  *)
C2_FirstMarkerOnly ==
  (FirstRunDone /\ Cardinality(Occurrences(C0, marker)) >= 2) =>
    /\ disk = PrefixOf(C0) \o setup_html
                \o SubSeq(C0, find(C0, marker), Len(C0))
    /\ Cardinality(Occurrences(disk, setup_html)) = 1

(* C3: when the file C holds no marker, a run leaves the file equal to C.  *)
C3_NoMarkerNoChange ==
  (FirstRunDone /\ Occurrences(C0, marker) = {}) => disk = C0

(* C4: the block does not hold the marker, and two runs on a file C =      *)
(* prefix + marker + suffix leave prefix + setup_html + setup_html +       *)
(* marker + suffix.                                                        *)
C4_TwoRunsTwoBlocks ==
  (run = 2 /\ pc = "done" /\ completed = 2 /\ find(C0, marker) # 0
     /\ find(setup_html, marker) = 0) =>
    disk = PrefixOf(C0) \o setup_html \o setup_html \o marker \o SuffixOf(C0)

(* C5: removing the inserted block at the insertion point from the file a  *)
(* run has written gives back, byte for byte, the file the run started     *)
(* from.                                                                   *)
C5_BytesPreserved ==
  pc = "done" =>
    IF InsertionPoint = 0 THEN disk = orig
    ELSE /\ SubSeq(disk, InsertionPoint,
                   InsertionPoint + Len(setup_html) - 1) = setup_html
         /\ RemoveAt(disk, InsertionPoint, Len(setup_html)) = orig

(* C6: a run on a readable file that may not be opened for writing fails   *)
(* at the open of line 50, after the read and the replacement, with a      *)
(* PermissionError and exit status 1, and the file is as the run found it. *)
C6_UnwritableLeavesFile ==
  /\ pc = "failed_write" =>
       /\ ~writable
       /\ trace = <<"read", "replace">>
       /\ stderr = <<"PermissionError">>
       /\ exitStatus = <<1>>
       /\ disk = orig
       /\ exists = origExists
  /\ (origExists /\ readable /\ ~writable /\ pc \in Exited) =>
       pc = "failed_write"

C6_Witness ==
  /\ pc = "failed_write"
  /\ find(orig, marker) # 0
  /\ content # orig
  /\ disk = orig

(* C7: a run on a missing or unreadable file fails at the open of line 2:  *)
(* exit status 1, no statement after it is executed, the file is neither   *)
(* created nor changed and nothing is printed; a run that ends normally    *)
(* has exit status 0.                                                      *)
C7_UnreadableFailsFast ==
  /\ pc = "failed_read" =>
       /\ ~(origExists /\ readable)
       /\ exitStatus = <<1>>
       /\ stderr \in { <<"FileNotFoundError">>, <<"PermissionError">> }
       /\ trace = <<>>
       /\ stdout = <<>>
       /\ disk = orig
       /\ exists = origExists
  /\ ~(origExists /\ readable) =>
       /\ pc \in {"start", "failed_read", "killed"}
       /\ trace = <<>>
       /\ stdout = <<>>
       /\ disk = orig
       /\ exists = origExists
  /\ pc = "done" => exitStatus = <<0>>
  /\ exitStatus = <<0>> => pc = "done"

C7_Witness ==
  /\ pc = "failed_read"
  /\ ~exists
  /\ writable
  /\ exitStatus = <<1>>

(* C8: before the open of line 50 the file is as the run found it, so a    *)
(* run interrupted before that open leaves the original file; a file left  *)
(* changed by an interrupted run was interrupted in the write step.        *)
C8_OriginalUntilWrite ==
  /\ pc \in {"start", "read", "replaced"} =>
       disk = orig /\ exists = origExists
  /\ (pc = "killed" /\ killedAt \in {"start", "read", "replaced"}) =>
       disk = orig /\ exists = origExists
  /\ (pc = "killed" /\ disk # orig) =>
       killedAt \in {"wopen", "wbuffered", "flush", "written"}

C8_Witness ==
  /\ pc = "killed"
  /\ killedAt = "replaced"
  /\ content # orig
  /\ orig # <<>>
  /\ disk = orig

(* an interrupted write step leaves a truncated or partly written file *)
C8_PartialWitness ==
  /\ pc = "killed"
  /\ killedAt = "flush"
  /\ disk # orig
  /\ disk # buf
  /\ IsPrefix(disk, buf)

(* C9: the statements a run has executed are an initial part of read,      *)
(* replace, open for writing, write, close, print: each at most once and   *)
(* in this order; a run that ended normally executed each exactly once.    *)
C9_FixedOrderOnce ==
  /\ IsPrefix(trace, StepOrder)
  /\ pc = "done" => trace = StepOrder
  /\ pc = "failed_write" => trace = SubSeq(StepOrder, 1, 2)

C9_Witness ==
  /\ run = 2
  /\ pc = "done"
  /\ trace = StepOrder
  /\ disk # orig

(* C10: a run prints the success message at most once, and only when the   *)
(* file has been written and closed; every run that ends normally has      *)
(* printed it, also when the marker was absent and nothing was inserted;   *)
(* a run that failed at the read or at the write printed nothing.          *)
C10_MessageAfterWrite ==
  /\ Len(stdout) <= 1
  /\ stdout # <<>> =>
       /\ stdout = <<SuccessMessage>>
       /\ pc = "done"
       /\ IsPrefix(SubSeq(StepOrder, 1, 5), trace)
       /\ disk = buf
  /\ pc = "done" => stdout = <<SuccessMessage>>
  /\ pc \in {"failed_read", "failed_write"} => stdout = <<>>

C10_Witness ==
  /\ pc = "done"
  /\ InsertionPoint = 0
  /\ content = TranslateRead(orig)
  /\ stdout = <<SuccessMessage>>

(***************************************************************************)
(* What holds of the files that have no carriage return: on them the read  *)
(* translates nothing and the statements of C1 to C5 hold.                 *)
(***************************************************************************)
NoCR_SingleMarkerSplice == ~HasCR(C0) => C1_SingleMarkerSplice

NoCR_FirstMarkerOnly == ~HasCR(C0) => C2_FirstMarkerOnly

NoCR_NoMarkerNoChange == ~HasCR(C0) => C3_NoMarkerNoChange

NoCR_TwoRunsTwoBlocks == ~HasCR(C0) => C4_TwoRunsTwoBlocks

NoCR_BytesPreserved == ~HasCR(orig) => C5_BytesPreserved

(* on every file, the text written is the replacement applied to the text
   read, and the read only translates line ends *)
TextSplice ==
  pc = "done" =>
    disk = TranslateWrite(replace(TranslateRead(orig), marker,
                                  setup_html \o marker))

=============================================================================
